---- MODULE Spec2Model ----
(***************************************************************************)
(* Model of the metrics deduplication pipeline of monad-be:                *)
(*   POST /api/v1/metrics  ->  validate(metricsSchema)  ->  handler        *)
(*   ->  processMetrics  (generateMetricHash, metricExistsInDB,            *)
(*       storeMetric, callExternalMetricsAPI, updateMany).                 *)
(*                                                                         *)
(* JSON values are tagged tuples <<kind, payload>> so that the code's      *)
(* type tests (zod), truthiness tests (||) and conversions (toString,      *)
(* JSON.stringify) are computed as JavaScript computes them.               *)
(* Time is counted in hours; every await of the code is a step boundary.   *)
(*                                                                         *)
(* The second part follows one subscription through                        *)
(* SubscriptionService.processPayment, cancelSubscription and              *)
(* POST /api/v1/subscriptions/:subscriptionId/payments; the third part     *)
(* follows one signed link through POST /link/:id/execute, and the fourth  *)
(* the runs of SyncService.syncPendingTransactions.                        *)
(***************************************************************************)
EXTENDS Integers, Sequences, FiniteSets, TLC

VARIABLES
    now,                 \* Date.now() / the database clock, in hours
    db,                  \* the metrics table: sequence of rows in insertion order
    req,                 \* per HTTP request: handler position, locals, response
    externalApiEnabled,  \* config.metrics.externalApiEnabled
    subscription,        \* the row of the subscriptions table the model follows
    subscriptionPayment, \* the subscription_payments table, in insertion order
    transaction,         \* the transactions written for the subscription
    subReq,              \* per subscription request: position, locals, result
    signedLink,          \* the row of the signed_links table the model follows
    linkReq,             \* per execute request of the link: position, result
    syncRun              \* per run of the sync job: position, its findMany result

subVars == <<subscription, subscriptionPayment, transaction, subReq>>

linkVars == <<signedLink, linkReq>>

vars == <<now, db, req, externalApiEnabled,
          subscription, subscriptionPayment, transaction, subReq,
          signedLink, linkReq, syncRun>>

----------------------------------------------------------------------------
(* Bounds of the model *)

NumRequests == 2
MaxBatch == 3
MaxTime == 2

(* Program constants *)

dedupWindowHours == 1

Requests == 1..NumRequests

----------------------------------------------------------------------------
(* JSON values *)

Undefined == <<"undefined">>
Null == <<"null">>
Str(s) == <<"string", s>>
Num(n) == <<"number", n>>
Obj(pairs) == <<"object", pairs>>      \* pairs: <<key, value>> in insertion order
Arr(elems) == <<"array", elems>>

Kind(v) == v[1]

\* JavaScript truthiness of a JSON value (the left operand of `x || y`).
Falsy(v) ==
    \/ Kind(v) \in {"undefined", "null"}
    \/ Kind(v) = "string" /\ v[2] = ""
    \/ Kind(v) = "number" /\ v[2] = 0

OrElse(v, w) == IF Falsy(v) THEN w ELSE v

\* Number.prototype.toString for the non-negative integers of the model:
\* the sequence of decimal digit characters.
Digits == <<"0", "1", "2", "3", "4", "5", "6", "7", "8", "9">>

RECURSIVE NumberToString(_)
NumberToString(n) ==
    IF n < 10 THEN <<Digits[n + 1]>>
    ELSE NumberToString(n \div 10) \o <<Digits[(n % 10) + 1]>>

\* UTF-16 code unit of the one-character tag keys of the model; the order
\* Array.prototype.sort() uses when called without a comparator.
CharCode == [a |-> 97, b |-> 98, c |-> 99]

\* keys.sort(): insertion of each key into an ascending sequence.
RECURSIVE SortInsert(_, _)
SortInsert(k, sorted) ==
    IF sorted = <<>> THEN <<k>>
    ELSE IF CharCode[k] <= CharCode[Head(sorted)] THEN <<k>> \o sorted
    ELSE <<Head(sorted)>> \o SortInsert(k, Tail(sorted))

RECURSIVE SortKeys(_)
SortKeys(keys) ==
    IF keys = <<>> THEN <<>> ELSE SortInsert(Head(keys), SortKeys(Tail(keys)))

\* Object.keys(o): the keys in insertion order.
ObjectKeys(o) == [n \in 1..Len(o[2]) |-> o[2][n][1]]

\* o[key]
ObjectGet(o, key) ==
    LET hits == {n \in 1..Len(o[2]) : o[2][n][1] = key}
    IN  IF hits = {} THEN Undefined ELSE o[2][CHOOSE n \in hits : TRUE][2]

\* JSON.stringify of a value: the token sequence of its text. Properties are
\* written in the object's own order; a number is written by its digits.
RECURSIVE Stringify(_)
Stringify(v) ==
    CASE Kind(v) = "string" -> <<"str", v[2]>>
      [] Kind(v) = "number" -> <<"num", NumberToString(v[2])>>
      [] Kind(v) = "null"   -> <<"null">>
      [] Kind(v) = "object" ->
            <<"obj", [n \in 1..Len(v[2]) |-> <<v[2][n][1], Stringify(v[2][n][2])>>]>>
      [] OTHER -> <<"undefined">>

\* crypto.createHash("sha256").update(data).digest("hex"): modelled as
\* collision-free on the serialised text.
Sha256Hex(data) == <<"sha256", data>>

----------------------------------------------------------------------------
(* generateMetricHash *)

NormalizedTags(metric) ==
    LET keys == SortKeys(ObjectKeys(metric.tags))
    IN  Obj([n \in 1..Len(keys) |-> <<keys[n], ObjectGet(metric.tags, keys[n])>>])

UnsortedTags(metric) == metric.tags

\* Variant: page_path is hashed as it came, without `|| null`.
HashWithRawPath(metric, tags) ==
    Sha256Hex(Stringify(Obj(<<
        <<"metric_name", metric.metric_name>>,
        <<"page_path", metric.page_path>>,
        <<"tags", tags>>,
        <<"type", metric.type>>,
        <<"value", metric.value>> >>)))

HashWith(metric, tags) ==
    Sha256Hex(Stringify(Obj(<<
        <<"metric_name", metric.metric_name>>,
        <<"page_path", OrElse(metric.page_path, Null)>>,
        <<"tags", tags>>,
        <<"type", metric.type>>,
        <<"value", metric.value>> >>)))

generateMetricHashUnsorted(metric) == HashWith(metric, UnsortedTags(metric))

generateMetricHash(metric) == HashWith(metric, NormalizedTags(metric))

----------------------------------------------------------------------------
(* Request validation: metricsSchema and validate(schema) *)

MetricFields == <<"metric_name", "page_path", "value", "tags", "type">>

\* The zod type of each field of a metric object.
FieldAccepts(field, v) ==
    CASE field = "metric_name" -> Kind(v) = "string"
      [] field = "page_path"   -> Kind(v) \in {"string", "null", "undefined"}
      [] field = "value"       -> Kind(v) = "number"
      [] field = "tags"        -> Kind(v) = "object"
      [] field = "type"        -> Kind(v) = "string"

FieldIssue(idx, field, v) ==
    [path |-> <<"metrics", idx - 1, field>>,
     message |-> IF Kind(v) = "undefined" THEN "Required" ELSE "Invalid type"]

\* Issues of one element, in the order of the schema's keys.
RECURSIVE ElementIssues(_, _, _)
ElementIssues(idx, m, k) ==
    IF k > Len(MetricFields) THEN <<>>
    ELSE LET field == MetricFields[k]
         IN  (IF FieldAccepts(field, m[field]) THEN <<>>
              ELSE <<FieldIssue(idx, field, m[field])>>)
             \o ElementIssues(idx, m, k + 1)

\* Variant: only the first element of the array is checked.
ArrayIssuesFirstOnly(elems, idx) ==
    IF elems = <<>> \/ idx > 1 THEN <<>> ELSE ElementIssues(1, elems[1], 1)

RECURSIVE ArrayIssues(_, _)
ArrayIssues(elems, idx) ==
    IF idx > Len(elems) THEN <<>>
    ELSE ElementIssues(idx, elems[idx], 1) \o ArrayIssues(elems, idx + 1)

\* schema.parse(req.body): the ZodError's issues, <<>> when the body parses.
SchemaIssues(body) ==
    IF Kind(body.metrics) # "array"
    THEN <<[path |-> <<"metrics">>,
            message |-> IF Kind(body.metrics) = "undefined"
                        THEN "Required" ELSE "Invalid type"]>>
    ELSE ArrayIssues(body.metrics[2], 1)

\* validate(): res.status(400).json({error, details}) on a ZodError.
ValidationResponse(issues) ==
    [status |-> 400,
     body |-> [error |-> "Validation failed", details |-> issues]]

\* sendError(res, code, message, statusCode) with details undefined.
sendError(code, message, statusCode) ==
    [status |-> statusCode,
     body |-> [success |-> FALSE, error |-> [code |-> code, message |-> message]]]

\* sendSuccess(res, data) with the default status 200.
sendSuccess(data) ==
    [status |-> 200, body |-> [success |-> TRUE, data |-> data]]

INVALID_PARAMETERS == "INVALID_PARAMETERS"
INTERNAL_ERROR == "INTERNAL_ERROR"

----------------------------------------------------------------------------
(* The store *)

\* The `where` of findFirst and updateMany: the identity tuple of a metric.
WhereIdentity(row, metric, tagsHash) ==
    /\ row.metricName = metric.metric_name
    /\ row.pagePath = OrElse(metric.page_path, Null)
    /\ row.tagsHash = tagsHash
    /\ row.type = metric.type
    /\ row.value = NumberToString(metric.value[2])

\* Variant: the rows written at the current hour are not seen by the lookup.
InWindowOlder(row, hoursAgo) == row.createdAt >= hoursAgo /\ row.createdAt < now

\* createdAt: { gte: hoursAgo }
InWindow(row, hoursAgo) == row.createdAt >= hoursAgo

\* Variant: createdAt: { gt: hoursAgo }
metricExistsStrict(metric, tagsHash) ==
    LET hoursAgo == now - dedupWindowHours
    IN  \E n \in 1..Len(db) :
            /\ WhereIdentity(db[n], metric, tagsHash)
            /\ db[n].createdAt > hoursAgo

\* Variant: the lookup without the createdAt condition.
metricExistsNoWindow(metric, tagsHash) ==
    \E n \in 1..Len(db) : WhereIdentity(db[n], metric, tagsHash)

metricExistsInDB(metric, tagsHash) ==
    LET hoursAgo == now - dedupWindowHours
    IN  \E n \in 1..Len(db) :
            /\ WhereIdentity(db[n], metric, tagsHash)
            /\ InWindow(db[n], hoursAgo)

\* Variant: the row is written as already forwarded.
NewRowForwarded(metric, tagsHash, r) ==
    [metricName |-> metric.metric_name,
     pagePath |-> OrElse(metric.page_path, Null),
     value |-> NumberToString(metric.value[2]),
     tags |-> metric.tags,
     type |-> metric.type,
     tagsHash |-> tagsHash,
     externalApiCalled |-> TRUE,
     externalApiResponse |-> Null,
     createdAt |-> now,
     insertedBy |-> r]

\* prisma.metric.create: the row storeMetric inserts (insertedBy is a ghost
\* field naming the request, used only by the properties).
NewRow(metric, tagsHash, r) ==
    [metricName |-> metric.metric_name,
     pagePath |-> OrElse(metric.page_path, Null),
     value |-> NumberToString(metric.value[2]),
     tags |-> metric.tags,
     type |-> metric.type,
     tagsHash |-> tagsHash,
     externalApiCalled |-> FALSE,
     externalApiResponse |-> Null,
     createdAt |-> now,
     insertedBy |-> r]

\* Variant: updateMany without externalApiCalled: false in its where.
UpdateManyUnfiltered(rows, metric, externalResponse) ==
    [n \in 1..Len(rows) |->
        IF WhereIdentity(rows[n], metric, generateMetricHash(metric))
        THEN [rows[n] EXCEPT !.externalApiCalled = TRUE,
                             !.externalApiResponse = OrElse(externalResponse, Obj(<<>>))]
        ELSE rows[n]]

\* prisma.metric.updateMany({where: {..., externalApiCalled: false}, data})
UpdateMany(rows, metric, externalResponse) ==
    [n \in 1..Len(rows) |->
        IF /\ WhereIdentity(rows[n], metric, generateMetricHash(metric))
           /\ rows[n].externalApiCalled = FALSE
        THEN [rows[n] EXCEPT !.externalApiCalled = TRUE,
                             !.externalApiResponse = OrElse(externalResponse, Obj(<<>>))]
        ELSE rows[n]]

----------------------------------------------------------------------------
(* Request bodies *)

Tags(pairs) == Obj(pairs)

M1 == [metric_name |-> Str("metric1"), page_path |-> Str("/test"),
       value |-> Num(1), tags |-> Tags(<<<<"a", Str("1")>>, <<"b", Str("2")>>>>),
       type |-> Str("count")]

M2 == [metric_name |-> Str("metric2"), page_path |-> Undefined,
       value |-> Num(2), tags |-> Tags(<<<<"a", Str("1")>>>>),
       type |-> Str("count")]

\* {"metric_name": "test_metric"}: value, tags and type are missing.
MissingFields == [metric_name |-> Str("test_metric"), page_path |-> Undefined,
                  value |-> Undefined, tags |-> Undefined, type |-> Undefined]

\* value is a string instead of a number.
WrongType == [M1 EXCEPT !.value = Str("1")]

\* Variants of M1 that differ from it in exactly one field, and the same
\* metric with its tag keys inserted in the other order.
M1Variants ==
    {M1,
     [M1 EXCEPT !.tags = Tags(<<<<"b", Str("2")>>, <<"a", Str("1")>>>>)],
     [M1 EXCEPT !.metric_name = Str("metric2")],
     [M1 EXCEPT !.page_path = Str("/other")],
     [M1 EXCEPT !.page_path = Str("")],
     [M1 EXCEPT !.page_path = Null],
     [M1 EXCEPT !.page_path = Undefined],
     [M1 EXCEPT !.type = Str("gauge")],
     [M1 EXCEPT !.value = Num(2)],
     [M1 EXCEPT !.value = Num(12)],
     [M1 EXCEPT !.tags = Tags(<<<<"a", Str("1")>>, <<"c", Str("2")>>>>)],
     [M1 EXCEPT !.tags = Tags(<<<<"a", Str("1")>>, <<"b", Str("3")>>>>)],
     [M1 EXCEPT !.tags = Tags(<<<<"a", Str("1")>>>>)]}

SeqOver(S, n) == UNION {[1..k -> S] : k \in 0..n}

\* Bodies of concurrent requests: one metric each, or an empty batch.
Bodies ==
    {[metrics |-> Arr(elems)] : elems \in {<<M1>>, <<M2>>, <<>>}}

\* Bodies of the batch request: up to MaxBatch elements, or no array at all.
BatchBodies ==
    {[metrics |-> Arr(elems)] :
        elems \in SeqOver({M1, M2, MissingFields, WrongType}, MaxBatch)}
    \cup {[metrics |-> Undefined]}

\* Bodies of sequential requests: one element out of the variants.
SeqBodies ==
    {[metrics |-> Arr(<<m>>)] : m \in M1Variants}

----------------------------------------------------------------------------
(* The handler of POST /api/v1/metrics and processMetrics *)

Idle ==
    [pc |-> "idle", body |-> [metrics |-> Undefined],
     i |-> 0, processed |-> 0, stored |-> 0, skipped |-> 0,
     metricsToSend |-> <<>>, tagsHash |-> Undefined,
     j |-> 0, externalResponse |-> Undefined,
     response |-> [status |-> 0],
     \* ghost fields, read only by the properties
     verdicts |-> <<>>, calls |-> <<>>, after |-> {}]

Metrics(q) == q.body.metrics[2]

Respond(q, response) == [q EXCEPT !.pc = "done", !.response = response]

\* return {processed, stored, skipped}; the handler answers sendSuccess.
Return(q) ==
    Respond(q, sendSuccess([processed |-> q.processed, stored |-> q.stored,
                            skipped |-> q.skipped]))

\* Variant: the handler answers the counts reached so far.
ThrowPartial(q, message) ==
    Respond(q, [status |-> 500,
                body |-> [success |-> FALSE,
                          error |-> [code |-> INTERNAL_ERROR, message |-> message],
                          data |-> [processed |-> q.processed, stored |-> q.stored,
                                    skipped |-> q.skipped]]])

\* A rejected promise of the store leaves processMetrics; the handler's catch
\* answers 500.
Throw(q, message) ==
    Respond(q, sendError(INTERNAL_ERROR, message, 500))

\* Top of the for loop for the metric at position i, up to the first await.
EnterIteration(q, i) ==
    [q EXCEPT !.i = i,
              !.processed = @ + 1,
              !.tagsHash = generateMetricHash(Metrics(q)[i]),
              !.pc = "lookup"]

\* Variant: the whole batch is forwarded, not only the metrics stored.
AfterLoopForwardsBatch(q) ==
    IF Len(q.metricsToSend) > 0 /\ externalApiEnabled
    THEN [q EXCEPT !.pc = "forward", !.calls = Append(@, q.body.metrics[2])]
    ELSE Respond(q, sendSuccess([processed |-> q.processed, stored |-> q.stored,
                                 skipped |-> q.skipped]))

\* Variant: the forward is issued whatever the configuration says.
AfterLoopIgnoresFlag(q) ==
    IF Len(q.metricsToSend) > 0
    THEN [q EXCEPT !.pc = "forward", !.calls = Append(@, q.metricsToSend)]
    ELSE Respond(q, sendSuccess([processed |-> q.processed, stored |-> q.stored,
                                 skipped |-> q.skipped]))

\* After the loop: the forward call is issued for a non-empty metricsToSend
\* when forwarding is enabled; otherwise the result is returned.
AfterLoop(q) ==
    IF Len(q.metricsToSend) > 0 /\ externalApiEnabled
    THEN [q EXCEPT !.pc = "forward", !.calls = Append(@, q.metricsToSend)]
    ELSE Return(q)

\* Variant: the forward is issued as soon as one metric has been stored.
NextIterationEager(q) ==
    IF q.i < Len(Metrics(q)) /\ q.metricsToSend = <<>>
    THEN EnterIteration(q, q.i + 1) ELSE AfterLoop(q)

NextIteration(q) ==
    IF q.i < Len(Metrics(q)) THEN EnterIteration(q, q.i + 1) ELSE AfterLoop(q)

\* Variant: the handler without its check for an empty array.
ReceiveNoEmptyCheck(q, body) ==
    LET got == [q EXCEPT !.body = body]
        issues == SchemaIssues(body)
    IN  IF issues # <<>>
        THEN Respond(got, ValidationResponse(issues))
        ELSE IF Len(body.metrics[2]) = 0
        THEN AfterLoop(got)
        ELSE EnterIteration(got, 1)

\* The request arrives: validate(metricsSchema), then the handler up to its
\* first await.
Receive(q, body) ==
    LET got == [q EXCEPT !.body = body]
        issues == SchemaIssues(body)
    IN  IF issues # <<>>
        THEN Respond(got, ValidationResponse(issues))
        ELSE IF Kind(body.metrics) # "array" \/ Len(body.metrics[2]) = 0
        THEN Respond(got, sendError(INVALID_PARAMETERS,
                          "Metrics array is required and cannot be empty", 400))
        ELSE EnterIteration(got, 1)

Done(r) == req[r].pc = "done"
InFlight(r) == req[r].pc \notin {"idle", "done"}

Submit(r, body) ==
    /\ req[r].pc = "idle"
    /\ \A p \in Requests : p < r => req[p].pc # "idle"
    /\ req' = [req EXCEPT ![r] =
                  Receive([@ EXCEPT !.after = {p \in Requests : Done(p)}], body)]
    /\ UNCHANGED <<linkVars, syncRun, now, db, externalApiEnabled, subVars>>

\* Variant: a duplicate is skipped but sent to the sink once more.
LookupResends(r) ==
    LET q == req[r]
        metric == Metrics(q)[q.i]
        exists == metricExistsInDB(metric, q.tagsHash)
    IN  /\ q.pc = "lookup"
        /\ req' = [req EXCEPT ![r] =
              IF exists
              THEN NextIteration([q EXCEPT !.skipped = @ + 1,
                                              !.metricsToSend = Append(@, metric),
                                              !.verdicts = Append(@, "Skipped")])
              ELSE [q EXCEPT !.pc = "insert"]]
        /\ UNCHANGED <<linkVars, syncRun, now, db, externalApiEnabled, subVars>>

\* Variant: a duplicate is passed over without skipped++.
LookupNoSkipCount(r) ==
    LET q == req[r]
        metric == Metrics(q)[q.i]
        exists == metricExistsInDB(metric, q.tagsHash)
    IN  /\ q.pc = "lookup"
        /\ req' = [req EXCEPT ![r] =
              IF exists
              THEN NextIteration([q EXCEPT !.verdicts = Append(@, "Skipped")])
              ELSE [q EXCEPT !.pc = "insert"]]
        /\ UNCHANGED <<linkVars, syncRun, now, db, externalApiEnabled, subVars>>

\* await metricExistsInDB(metric, tagsHash)
Lookup(r) ==
    LET q == req[r]
        metric == Metrics(q)[q.i]
        exists == metricExistsInDB(metric, q.tagsHash)
    IN  /\ q.pc = "lookup"
        /\ req' = [req EXCEPT ![r] =
              IF exists
              THEN NextIteration([q EXCEPT !.skipped = @ + 1,
                                              !.verdicts = Append(@, "Skipped")])
              ELSE [q EXCEPT !.pc = "insert"]]
        /\ UNCHANGED <<linkVars, syncRun, now, db, externalApiEnabled, subVars>>

LookupFails(r) ==
    /\ req[r].pc = "lookup"
    /\ req' = [req EXCEPT ![r] = Throw(@, "findFirst failed")]
    /\ UNCHANGED <<linkVars, syncRun, now, db, externalApiEnabled, subVars>>

\* await storeMetric(metric, tagsHash); stored++; metricsToSend.push(metric)
Insert(r) ==
    LET q == req[r]
        metric == Metrics(q)[q.i]
    IN  /\ q.pc = "insert"
        /\ db' = Append(db, NewRow(metric, q.tagsHash, r))
        /\ req' = [req EXCEPT ![r] =
              NextIteration([q EXCEPT !.stored = @ + 1,
                                      !.metricsToSend = Append(@, metric),
                                      !.verdicts = Append(@, "Stored")])]
        /\ UNCHANGED <<linkVars, syncRun, now, externalApiEnabled, subVars>>

\* Variant: a rejected create rolls back the rows the request has written.
InsertFailsRollsBack(r) ==
    /\ req[r].pc = "insert"
    /\ db' = SelectSeq(db, LAMBDA row : row.insertedBy # r)
    /\ req' = [req EXCEPT ![r] = Throw(@, "create failed")]
    /\ UNCHANGED <<linkVars, syncRun, now, externalApiEnabled, subVars>>

\* Variant: a rejected create is counted as stored and the loop goes on.
InsertFailsCounted(r) ==
    LET q == req[r]
    IN  /\ q.pc = "insert"
        /\ req' = [req EXCEPT ![r] =
              NextIteration([q EXCEPT !.stored = @ + 1,
                                      !.metricsToSend = Append(@, Metrics(q)[q.i]),
                                      !.verdicts = Append(@, "Stored")])]
        /\ UNCHANGED <<linkVars, syncRun, now, db, externalApiEnabled, subVars>>

InsertFails(r) ==
    /\ req[r].pc = "insert"
    /\ req' = [req EXCEPT ![r] = Throw(@, "create failed")]
    /\ UNCHANGED <<linkVars, syncRun, now, db, externalApiEnabled, subVars>>

\* Bodies the external sink answers with (response.data); the empty one is
\* falsy and is replaced by {} when it is attached to a row.
SinkResponses == {Str(""), Str("ok")}

\* callExternalMetricsAPI resolves; the first updateMany is issued.
ForwardOk(r, data) ==
    /\ req[r].pc = "forward"
    /\ req' = [req EXCEPT ![r] = [@ EXCEPT !.externalResponse = data,
                                           !.j = 1, !.pc = "update"]]
    /\ UNCHANGED <<linkVars, syncRun, now, db, externalApiEnabled, subVars>>

\* Variant: the forward error leaves processMetrics uncaught.
ForwardFailsThrows(r) ==
    /\ req[r].pc = "forward"
    /\ req' = [req EXCEPT ![r] = Throw(@, "External API error")]
    /\ UNCHANGED <<linkVars, syncRun, now, db, externalApiEnabled, subVars>>

\* Variant: the rows of the batch are marked as forwarded after a failed
\* attempt.
ForwardFailsMarks(r) ==
    /\ req[r].pc = "forward"
    /\ db' = [n \in 1..Len(db) |->
                IF db[n].insertedBy = r
                THEN [db[n] EXCEPT !.externalApiCalled = TRUE] ELSE db[n]]
    /\ req' = [req EXCEPT ![r] = Return(@)]
    /\ UNCHANGED <<linkVars, syncRun, now, externalApiEnabled, subVars>>

\* callExternalMetricsAPI rejects (network error, non-2xx, timeout): the
\* catch of processMetrics logs it and the result is returned.
ForwardFails(r) ==
    /\ req[r].pc = "forward"
    /\ req' = [req EXCEPT ![r] = Return(@)]
    /\ UNCHANGED <<linkVars, syncRun, now, db, externalApiEnabled, subVars>>

AfterUpdate(q) ==
    IF q.j < Len(q.metricsToSend) THEN [q EXCEPT !.j = @ + 1] ELSE Return(q)

\* await prisma.metric.updateMany(...) for metricsToSend[j]
Update(r) ==
    LET q == req[r]
    IN  /\ q.pc = "update"
        /\ db' = UpdateMany(db, q.metricsToSend[q.j], q.externalResponse)
        /\ req' = [req EXCEPT ![r] = AfterUpdate(q)]
        /\ UNCHANGED <<linkVars, syncRun, now, externalApiEnabled, subVars>>

\* updateMany rejects inside the try block: caught like a forward failure.
UpdateFails(r) ==
    /\ req[r].pc = "update"
    /\ req' = [req EXCEPT ![r] = Return(@)]
    /\ UNCHANGED <<linkVars, syncRun, now, db, externalApiEnabled, subVars>>

\* The clock advances by one hour. (Before the first row is written the
\* time of day makes no difference, and after the last request none either.)
Tick ==
    /\ now < MaxTime
    /\ db # <<>>
    /\ \E r \in Requests : ~Done(r)
    /\ now' = now + 1
    /\ UNCHANGED <<linkVars, syncRun, db, req, externalApiEnabled, subVars>>

----------------------------------------------------------------------------
(* Subscriptions: SubscriptionService and the routes of                    *)
(* /api/v1/subscriptions. One subscription is followed; its times are on   *)
(* the clock `now`, its interval is one unit of that clock.                *)

\* prisma.subscription.create of POST /api/v1/subscriptions: status ACTIVE,
\* nothing paid, the first payment due one interval after the start at 0.
NewSubscription(totalPayments) ==
    [status |-> "ACTIVE", paidCount |-> 0, nextPaymentTime |-> 1,
     interval |-> 1, totalPayments |-> totalPayments]

\* Bodies of POST /:subscriptionId/payments: the payment number the client
\* reports and the next payment time, which may be missing or 0.
PaymentBodies ==
    {[paymentNumber |-> Num(1), nextPaymentTime |-> t] :
        t \in {Undefined, Num(0), Num(3)}}

SubIdle ==
    [pc |-> "idle", kind |-> "", subscription |-> NewSubscription(0),
     body |-> [paymentNumber |-> Undefined, nextPaymentTime |-> Undefined],
     transferred |-> FALSE, receiptStatus |-> 0,
     result |-> [status |-> 0, message |-> ""]]

SubStarted(r) == subReq[r].pc # "idle"

\* Requests are numbered in the order they begin.
MayBegin(r) ==
    /\ subReq[r].pc = "idle"
    /\ \A p \in Requests : p < r => SubStarted(p)

\* The request ends: res.json / sendSuccess, or next(error).
Finish(q, status, message) ==
    [q EXCEPT !.pc = "done", !.result = [status |-> status, message |-> message]]

\* throw new Error(message): the route hands it to the error middleware.
Reject(q, message) == Finish(q, 500, message)

\* processPayment(subscriptionId) up to its first transfer: findUnique and
\* the checks of status and nextPaymentTime.
ProcessPayment(r) ==
    LET q == [subReq[r] EXCEPT !.kind = "processPayment"]
    IN  /\ MayBegin(r)
        /\ subReq' = [subReq EXCEPT ![r] =
              IF subscription.status # "ACTIVE"
              THEN Reject(q, "Subscription is not active")
              ELSE IF subscription.nextPaymentTime > now
              THEN Reject(q, "Payment time has not been reached")
              ELSE [q EXCEPT !.subscription = subscription,
                             !.pc = "transferTokens"]]
        /\ UNCHANGED <<linkVars, syncRun, now, db, req, externalApiEnabled,
                       subscription, subscriptionPayment, transaction>>

\* await ContractService.transferTokens(payer, recipient, amount)
TransferTokens(r) ==
    /\ subReq[r].pc = "transferTokens"
    /\ subReq' = [subReq EXCEPT ![r] =
          [@ EXCEPT !.transferred = TRUE, !.pc = "getTransactionReceipt"]]
    /\ UNCHANGED <<linkVars, syncRun, now, db, req, externalApiEnabled,
                   subscription, subscriptionPayment, transaction>>

\* The transfer is rejected (no approval, no funds, no contract address).
TransferTokensFails(r) ==
    /\ subReq[r].pc = "transferTokens"
    /\ subReq' = [subReq EXCEPT ![r] = Reject(@, "transfer failed")]
    /\ UNCHANGED <<linkVars, syncRun, now, db, req, externalApiEnabled,
                   subscription, subscriptionPayment, transaction>>

\* await ContractService.getTransactionReceipt(txHash): receipt.status is 1
\* (success) or 0 (reverted).
GetTransactionReceipt(r, status) ==
    /\ subReq[r].pc = "getTransactionReceipt"
    /\ subReq' = [subReq EXCEPT ![r] =
          [@ EXCEPT !.receiptStatus = status, !.pc = "createPayment"]]
    /\ UNCHANGED <<linkVars, syncRun, now, db, req, externalApiEnabled,
                   subscription, subscriptionPayment, transaction>>

\* The receipt is null.
ReceiptNotFound(r) ==
    /\ subReq[r].pc = "getTransactionReceipt"
    /\ subReq' = [subReq EXCEPT ![r] = Reject(@, "Transaction receipt not found")]
    /\ UNCHANGED <<linkVars, syncRun, now, db, req, externalApiEnabled,
                   subscription, subscriptionPayment, transaction>>

\* await prisma.subscriptionPayment.create(...) of processPayment; with a
\* reverted receipt the function returns after it.
CreatePayment(r) ==
    LET q == subReq[r]
        sub == q.subscription
    IN  /\ q.pc = "createPayment"
        /\ subscriptionPayment' = Append(subscriptionPayment,
              [paymentNumber |-> Num(sub.paidCount + 1),
               nextPaymentTime |-> Num(sub.nextPaymentTime + sub.interval),
               status |-> IF q.receiptStatus = 1 THEN "CONFIRMED" ELSE "FAILED",
               createdBy |-> r])
        /\ subReq' = [subReq EXCEPT ![r] =
              IF q.receiptStatus = 1
              THEN [q EXCEPT !.pc = "updateSubscription"]
              ELSE Finish(q, 200, "Payment processed")]
        /\ UNCHANGED <<linkVars, syncRun, now, db, req, externalApiEnabled, subscription, transaction>>

\* await prisma.subscription.update({data: {paidCount, nextPaymentTime}})
UpdateSubscription(r) ==
    LET sub == subReq[r].subscription
    IN  /\ subReq[r].pc = "updateSubscription"
        /\ subscription' = [subscription EXCEPT
              !.paidCount = sub.paidCount + 1,
              !.nextPaymentTime = sub.nextPaymentTime + sub.interval]
        /\ subReq' = [subReq EXCEPT ![r] = [@ EXCEPT !.pc = "createTransaction"]]
        /\ UNCHANGED <<linkVars, syncRun, now, db, req, externalApiEnabled,
                       subscriptionPayment, transaction>>

\* provider.getBlock (its failure is caught), await prisma.transaction.create,
\* return; the route answers "Payment processed".
CreateTransaction(r) ==
    /\ subReq[r].pc = "createTransaction"
    /\ transaction' = Append(transaction,
          [type |-> "SUBSCRIPTION", status |-> "CONFIRMED",
           syncStatus |-> "SYNCED", createdBy |-> r])
    /\ subReq' = [subReq EXCEPT ![r] = Finish(@, 200, "Payment processed")]
    /\ UNCHANGED <<linkVars, syncRun, now, db, req, externalApiEnabled,
                   subscription, subscriptionPayment>>

\* POST /:subscriptionId/payments up to its first write: findUnique.
RecordPayment(r, body) ==
    /\ MayBegin(r)
    /\ subReq' = [subReq EXCEPT ![r] =
          [@ EXCEPT !.kind = "recordPayment", !.body = body,
                    !.subscription = subscription, !.pc = "recordCreate"]]
    /\ UNCHANGED <<linkVars, syncRun, now, db, req, externalApiEnabled,
                   subscription, subscriptionPayment, transaction>>

\* await prisma.subscriptionPayment.create(...) of the route
RecordCreate(r) ==
    LET q == subReq[r]
    IN  /\ q.pc = "recordCreate"
        /\ subscriptionPayment' = Append(subscriptionPayment,
              [paymentNumber |-> q.body.paymentNumber,
               nextPaymentTime |-> IF Falsy(q.body.nextPaymentTime)
                                   THEN Null ELSE q.body.nextPaymentTime,
               status |-> "PENDING",
               createdBy |-> r])
        /\ subReq' = [subReq EXCEPT ![r] = [q EXCEPT !.pc = "recordUpdate"]]
        /\ UNCHANGED <<linkVars, syncRun, now, db, req, externalApiEnabled, subscription, transaction>>

\* await prisma.subscription.update(...) of the route
RecordUpdate(r) ==
    LET q == subReq[r]
    IN  /\ q.pc = "recordUpdate"
        /\ subscription' = [subscription EXCEPT
              !.paidCount = q.subscription.paidCount + 1,
              !.nextPaymentTime = IF Falsy(q.body.nextPaymentTime)
                                  THEN q.subscription.nextPaymentTime
                                  ELSE q.body.nextPaymentTime[2]]
        /\ subReq' = [subReq EXCEPT ![r] = [q EXCEPT !.pc = "recordTransaction"]]
        /\ UNCHANGED <<linkVars, syncRun, now, db, req, externalApiEnabled,
                       subscriptionPayment, transaction>>

\* await prisma.transaction.create(...) of the route; sendSuccess(..., 201)
RecordTransaction(r) ==
    /\ subReq[r].pc = "recordTransaction"
    /\ transaction' = Append(transaction,
          [type |-> "SUBSCRIPTION", status |-> "PENDING",
           syncStatus |-> "PENDING", createdBy |-> r])
    /\ subReq' = [subReq EXCEPT ![r] = Finish(@, 201, "")]
    /\ UNCHANGED <<linkVars, syncRun, now, db, req, externalApiEnabled,
                   subscription, subscriptionPayment>>

\* cancelSubscription(subscriptionId, subscriberAddress) called by the
\* payer: findUnique, the owner check, update({data: {status: "CANCELLED"}}).
cancelSubscription ==
    /\ subscription' = [subscription EXCEPT !.status = "CANCELLED"]
    /\ UNCHANGED <<linkVars, syncRun, now, db, req, externalApiEnabled,
                   subscriptionPayment, transaction, subReq>>

\* The clock advances by one unit. (The only read of the clock is the check
\* of nextPaymentTime when processPayment begins.)
Clock ==
    /\ now < MaxTime
    /\ \E r \in Requests : subReq[r].pc = "idle"
    /\ now' = now + 1
    /\ UNCHANGED <<linkVars, syncRun, db, req, externalApiEnabled, subVars>>

\* No subscription request runs (the metrics specifications).
SubscriptionsIdle ==
    /\ subscription = NewSubscription(0)
    /\ subscriptionPayment = <<>>
    /\ transaction = <<>>
    /\ subReq = [r \in Requests |-> SubIdle]

----------------------------------------------------------------------------
(* Signed links: POST /link/:id/execute. One link is followed; its expiry  *)
(* is on the clock `now`.                                                  *)

\* The row of signed_links: not executed; expiresAt is null or a time, and
\* the stored signature verifies against the payload or does not.
NewLink(expiresAt, signatureValid) ==
    [executed |-> FALSE, executedTxHash |-> Null,
     expiresAt |-> expiresAt, signatureValid |-> signatureValid]

LinkIdle ==
    [pc |-> "idle", called |-> FALSE, txHash |-> Undefined,
     result |-> [status |-> 0, message |-> ""]]

\* throw new AppError(message, 400)
Refuse(q, message) == Finish(q, 400, message)

\* The handler up to its first effect: findUnique and the checks of
\* executed, expiresAt and the link's signature.
ExecuteLink(r) ==
    /\ linkReq[r].pc = "idle"
    /\ \A p \in Requests : p < r => linkReq[p].pc # "idle"
    /\ linkReq' = [linkReq EXCEPT ![r] =
          IF signedLink.executed
          THEN Refuse(@, "Link has already been executed")
          ELSE IF ~Falsy(signedLink.expiresAt) /\ now > signedLink.expiresAt[2]
          THEN Refuse(@, "Link has expired")
          ELSE IF ~signedLink.signatureValid
          THEN Refuse(@, "Invalid link signature")
          ELSE [@ EXCEPT !.pc = "executeAirdrop"]]
    /\ UNCHANGED <<now, db, req, externalApiEnabled, subVars, signedLink, syncRun>>

\* await ContractService.executeAirdrop(creator, recipients, amounts, "")
\* returns the hash of the airdrop transaction.
ExecuteAirdrop(r) ==
    /\ linkReq[r].pc = "executeAirdrop"
    /\ linkReq' = [linkReq EXCEPT ![r] =
          [@ EXCEPT !.called = TRUE, !.txHash = Str("0x" \o ToString(r)),
                    !.pc = "markExecuted"]]
    /\ UNCHANGED <<now, db, req, externalApiEnabled, subVars, signedLink, syncRun>>

\* The call throws (no contract address, a rejected transaction, a failed
\* write of its records): next(error) answers 500.
ExecuteAirdropFails(r) ==
    /\ linkReq[r].pc = "executeAirdrop"
    /\ linkReq' = [linkReq EXCEPT ![r] =
          Reject([@ EXCEPT !.called = TRUE], "airdrop failed")]
    /\ UNCHANGED <<now, db, req, externalApiEnabled, subVars, signedLink, syncRun>>

\* await prisma.signedLink.update({data: {executed: true, ...}}); res.json
MarkExecuted(r) ==
    /\ linkReq[r].pc = "markExecuted"
    /\ signedLink' = [signedLink EXCEPT !.executed = TRUE,
                                        !.executedTxHash = linkReq[r].txHash]
    /\ linkReq' = [linkReq EXCEPT ![r] =
          Finish(@, 200, "Link executed successfully")]
    /\ UNCHANGED <<now, db, req, externalApiEnabled, subVars, syncRun>>

\* The update is rejected by the database: next(error) answers 500.
MarkExecutedFails(r) ==
    /\ linkReq[r].pc = "markExecuted"
    /\ linkReq' = [linkReq EXCEPT ![r] = Reject(@, "update failed")]
    /\ UNCHANGED <<now, db, req, externalApiEnabled, subVars, signedLink, syncRun>>

\* The clock advances by one unit. (The only read of the clock is the check
\* of expiresAt when a request begins.)
LinkClock ==
    /\ now < MaxTime
    /\ ~Falsy(signedLink.expiresAt)
    /\ \E r \in Requests : linkReq[r].pc = "idle"
    /\ now' = now + 1
    /\ UNCHANGED <<db, req, externalApiEnabled, subVars, linkVars, syncRun>>

\* No request executes the link.
LinksIdle ==
    /\ signedLink = NewLink(Null, TRUE)
    /\ linkReq = [r \in Requests |-> LinkIdle]

----------------------------------------------------------------------------
(* The sync job: SyncService.syncPendingTransactions, started by the timer *)
(* of initializeBackgroundJobs every 30 seconds whether or not the run     *)
(* before it has returned.                                                 *)

\* A transaction as the routes record it before it is mined.
PendingTransaction(txHash) ==
    [type |-> "BATCH", status |-> "PENDING", syncStatus |-> "PENDING",
     createdBy |-> 0, txHash |-> txHash]

RunIdle ==
    [pc |-> "idle", pendingTransactions |-> <<>>, k |-> 0, receiptStatus |-> 0]

\* The ids of the rows with the given sync states, in the table's order.
RECURSIVE IdsWhere(_, _)
IdsWhere(n, states) ==
    IF n = 0 THEN <<>>
    ELSE IF transaction[n].syncStatus \in states
         THEN Append(IdsWhere(n - 1, states), n)
         ELSE IdsWhere(n - 1, states)

\* The loop moves to its next transaction with a txHash
\* (`if (!tx.txHash) continue`), or the run returns.
RECURSIVE FromTx(_, _)
FromTx(run, k) ==
    IF k > Len(run.pendingTransactions)
    THEN [run EXCEPT !.k = k, !.pc = "done"]
    ELSE IF Falsy(transaction[run.pendingTransactions[k]].txHash)
         THEN FromTx(run, k + 1)
         ELSE [run EXCEPT !.k = k, !.pc = "markSyncing"]

NextTx(run) == FromTx(run, run.k + 1)

\* tx.id of the transaction the run is at
TxId(r) == syncRun[r].pendingTransactions[syncRun[r].k]

\* A run starts: findMany where syncStatus in [PENDING, SYNCING] (every row
\* of the model is younger than ten minutes).
syncPendingTransactions(r) ==
    /\ syncRun[r].pc = "idle"
    /\ \A p \in Requests : p < r => syncRun[p].pc # "idle"
    /\ syncRun' = [syncRun EXCEPT ![r] =
          NextTx([@ EXCEPT !.pendingTransactions =
                      IdsWhere(Len(transaction), {"PENDING", "SYNCING"})])]
    /\ UNCHANGED <<now, db, req, externalApiEnabled, subVars, linkVars>>

\* await prisma.transaction.update({where: {id}, data: {syncStatus: "SYNCING"}})
MarkSyncing(r) ==
    /\ syncRun[r].pc = "markSyncing"
    /\ transaction' = [transaction EXCEPT ![TxId(r)].syncStatus = "SYNCING"]
    /\ syncRun' = [syncRun EXCEPT ![r].pc = "getTransactionReceipt"]
    /\ UNCHANGED <<now, db, req, externalApiEnabled, subscription,
                   subscriptionPayment, subReq, linkVars>>

\* await provider.getTransactionReceipt(tx.txHash) finds the receipt, and
\* provider.getBlock its block; receipt.status is 1 or 0.
GetReceipt(r, status) ==
    /\ syncRun[r].pc = "getTransactionReceipt"
    /\ syncRun' = [syncRun EXCEPT ![r] =
          [@ EXCEPT !.receiptStatus = status, !.pc = "markSynced"]]
    /\ UNCHANGED <<now, db, req, externalApiEnabled, subVars, linkVars>>

\* No receipt yet. ageMinutes is measured now, after the awaits: `old` tells
\* whether the transaction has meanwhile passed ten minutes.
GetReceiptNull(r, old) ==
    /\ syncRun[r].pc = "getTransactionReceipt"
    /\ syncRun' = [syncRun EXCEPT ![r] =
          IF old THEN [@ EXCEPT !.pc = "markStale"] ELSE NextTx(@)]
    /\ UNCHANGED <<now, db, req, externalApiEnabled, subVars, linkVars>>

\* The provider throws: the catch block of the loop.
GetReceiptFails(r) ==
    /\ syncRun[r].pc = "getTransactionReceipt"
    /\ syncRun' = [syncRun EXCEPT ![r].pc = "markPending"]
    /\ UNCHANGED <<now, db, req, externalApiEnabled, subVars, linkVars>>

\* await prisma.transaction.update({where: {id}, data: {status, syncStatus:
\* "SYNCED", ...}})
MarkSynced(r) ==
    /\ syncRun[r].pc = "markSynced"
    /\ transaction' = [transaction EXCEPT ![TxId(r)] =
          [@ EXCEPT !.status = IF syncRun[r].receiptStatus = 1
                               THEN "CONFIRMED" ELSE "FAILED",
                    !.syncStatus = "SYNCED"]]
    /\ syncRun' = [syncRun EXCEPT ![r] = NextTx(@)]
    /\ UNCHANGED <<now, db, req, externalApiEnabled, subscription,
                   subscriptionPayment, subReq, linkVars>>

\* ageMinutes > 10: update({where: {id}, data: {syncStatus: "SYNCING"}})
MarkStale(r) ==
    /\ syncRun[r].pc = "markStale"
    /\ transaction' = [transaction EXCEPT ![TxId(r)].syncStatus = "SYNCING"]
    /\ syncRun' = [syncRun EXCEPT ![r] = NextTx(@)]
    /\ UNCHANGED <<now, db, req, externalApiEnabled, subscription,
                   subscriptionPayment, subReq, linkVars>>

\* catch: update({where: {id}, data: {syncStatus: "PENDING"}})
MarkPending(r) ==
    /\ syncRun[r].pc = "markPending"
    /\ transaction' = [transaction EXCEPT ![TxId(r)].syncStatus = "PENDING"]
    /\ syncRun' = [syncRun EXCEPT ![r] = NextTx(@)]
    /\ UNCHANGED <<now, db, req, externalApiEnabled, subscription,
                   subscriptionPayment, subReq, linkVars>>

\* No run of the sync job.
SyncIdle == syncRun = [r \in Requests |-> RunIdle]

----------------------------------------------------------------------------
(* Specifications *)

Init ==
    /\ now = 0
    /\ db = <<>>
    /\ req = [r \in Requests |-> Idle]
    /\ externalApiEnabled \in BOOLEAN
    /\ SubscriptionsIdle
    /\ LinksIdle
    /\ SyncIdle

Classify(r) ==
    \/ Lookup(r)
    \/ Insert(r)

StoreFails(r) ==
    \/ LookupFails(r)
    \/ InsertFails(r)

Forward(r, responses) ==
    \/ \E data \in responses : ForwardOk(r, data)
    \/ ForwardFails(r)
    \/ Update(r)
    \/ UpdateFails(r)

\* Concurrent requests of one metric each: any interleaving of the handlers'
\* awaits.
Next ==
    \/ \E r \in Requests, body \in Bodies : Submit(r, body)
    \/ \E r \in Requests : Classify(r)
    \/ \E r \in Requests : StoreFails(r)
    \/ \E r \in Requests : Forward(r, {Str("ok")})
    \/ Tick

Spec == Init /\ [][Next]_vars

\* One request with a batch of up to MaxBatch elements, against the store as
\* an earlier request left it: empty, or holding a row of M1 written at hour 0
\* whose forward failed or was disabled.
PriorStores ==
    {<<>>, <<[NewRow(M1, generateMetricHash(M1), 0) EXCEPT !.createdAt = 0]>>}

InitBatch ==
    /\ now = 0
    /\ db \in PriorStores
    /\ req = [r \in Requests |-> Idle]
    /\ externalApiEnabled \in BOOLEAN
    /\ SubscriptionsIdle
    /\ LinksIdle
    /\ SyncIdle

NextBatch ==
    \/ \E body \in BatchBodies : Submit(1, body)
    \/ Classify(1)
    \/ StoreFails(1)
    \/ Forward(1, SinkResponses)
    \/ Tick

SpecBatch == InitBatch /\ [][NextBatch]_vars

\* Sequential requests of one metric each out of the variants of M1, with a
\* healthy store, a stopped clock and forwarding disabled.
InitSeq ==
    /\ now = 0
    /\ db = <<>>
    /\ req = [r \in Requests |-> Idle]
    /\ externalApiEnabled = FALSE
    /\ SubscriptionsIdle
    /\ LinksIdle
    /\ SyncIdle

NextSeq ==
    \/ \E r \in Requests, body \in SeqBodies :
          (\A p \in Requests : ~InFlight(p)) /\ Submit(r, body)
    \/ \E r \in Requests : Classify(r)

SpecSeq == InitSeq /\ [][NextSeq]_vars

\* Concurrent requests of one metric each with forwarding enabled, a healthy
\* store and a stopped clock; the sink answers each call with one of its two
\* bodies, so that the rows tell which call marked them.
InitForward ==
    /\ now = 0
    /\ db = <<>>
    /\ req = [r \in Requests |-> Idle]
    /\ externalApiEnabled = TRUE
    /\ SubscriptionsIdle
    /\ LinksIdle
    /\ SyncIdle

NextForward ==
    \/ \E r \in Requests, body \in Bodies : Submit(r, body)
    \/ \E r \in Requests : Classify(r)
    \/ \E r \in Requests : Forward(r, SinkResponses)

SpecForward == InitForward /\ [][NextForward]_vars

\* The subscription under concurrent payment requests, a cancellation by
\* the payer at any moment, and the clock. The subscription is unlimited
\* (totalPayments 0) or limited to one payment.
InitSub ==
    /\ now = 0
    /\ db = <<>>
    /\ req = [r \in Requests |-> Idle]
    /\ externalApiEnabled = FALSE
    /\ subscription \in {NewSubscription(n) : n \in {0, 1}}
    /\ subscriptionPayment = <<>>
    /\ transaction = <<>>
    /\ subReq = [r \in Requests |-> SubIdle]
    /\ LinksIdle
    /\ SyncIdle

PaymentStep(r) ==
    \/ ProcessPayment(r)
    \/ TransferTokens(r)
    \/ TransferTokensFails(r)
    \/ \E status \in {0, 1} : GetTransactionReceipt(r, status)
    \/ ReceiptNotFound(r)
    \/ CreatePayment(r)
    \/ UpdateSubscription(r)
    \/ CreateTransaction(r)

RecordStep(r) ==
    \/ \E body \in PaymentBodies : RecordPayment(r, body)
    \/ RecordCreate(r)
    \/ RecordUpdate(r)
    \/ RecordTransaction(r)

NextSub ==
    \/ \E r \in Requests : PaymentStep(r)
    \/ \E r \in Requests : RecordStep(r)
    \/ cancelSubscription
    \/ Clock

SpecSub == InitSub /\ [][NextSub]_vars

\* One signed link under concurrent execute requests, and the clock. The
\* link never expires or expires at 1; its signature verifies or not.
InitLink ==
    /\ now = 0
    /\ db = <<>>
    /\ req = [r \in Requests |-> Idle]
    /\ externalApiEnabled = FALSE
    /\ SubscriptionsIdle
    /\ signedLink \in {NewLink(e, v) : e \in {Null, Num(1)}, v \in BOOLEAN}
    /\ linkReq = [r \in Requests |-> LinkIdle]
    /\ SyncIdle

ExecuteStep(r) ==
    \/ ExecuteLink(r)
    \/ ExecuteAirdrop(r)
    \/ ExecuteAirdropFails(r)
    \/ MarkExecuted(r)
    \/ MarkExecutedFails(r)

NextLink ==
    \/ \E r \in Requests : ExecuteStep(r)
    \/ LinkClock

SpecLink == InitLink /\ [][NextLink]_vars

\* Two recorded transactions, the first with or without a txHash, under
\* runs of the sync job that may overlap.
InitSync ==
    /\ now = 0
    /\ db = <<>>
    /\ req = [r \in Requests |-> Idle]
    /\ externalApiEnabled = FALSE
    /\ subscription = NewSubscription(0)
    /\ subscriptionPayment = <<>>
    /\ transaction \in {<<PendingTransaction(h), PendingTransaction(Str("0xb"))>> :
                           h \in {Null, Str("0xa")}}
    /\ subReq = [r \in Requests |-> SubIdle]
    /\ LinksIdle
    /\ SyncIdle

SyncStep(r) ==
    \/ syncPendingTransactions(r)
    \/ MarkSyncing(r)
    \/ \E status \in {0, 1} : GetReceipt(r, status)
    \/ \E old \in BOOLEAN : GetReceiptNull(r, old)
    \/ GetReceiptFails(r)
    \/ MarkSynced(r)
    \/ MarkStale(r)
    \/ MarkPending(r)

NextSync == \E r \in Requests : SyncStep(r)

SpecSync == InitSync /\ [][NextSync]_vars

----------------------------------------------------------------------------
(* Properties *)

CountOf(seq, v) == Cardinality({k \in 1..Len(seq) : seq[k] = v})

RowsInsertedBy(r) == {n \in 1..Len(db) : db[n].insertedBy = r}

Succeeded(r) == Done(r) /\ req[r].response.status = 200

\* The row was written for this very metric (field by field, not by hash).
RowOf(row, m) ==
    /\ row.metricName = m.metric_name
    /\ row.tags = m.tags
    /\ row.type = m.type
    /\ row.value = NumberToString(m.value[2])
    /\ row.pagePath = (IF Kind(m.page_path) = "undefined" THEN Null ELSE m.page_path)

\* The forward call of the request was made and failed.
ForwardFailed(r) ==
    Done(r) /\ req[r].calls # <<>> /\ req[r].externalResponse = Undefined

\* C1: every result returned for a batch of n >= 1 metrics has
\* processed = stored + skipped and processed = n, whatever the forward did.
C1_BatchInvariant ==
    \A r \in Requests :
        Succeeded(r) =>
            LET data == req[r].response.body.data
            IN  /\ data.processed = data.stored + data.skipped
                /\ data.processed = Len(Metrics(req[r]))
                /\ data.processed >= 1

\* A batch of three with a stored and a skipped metric, returned after the
\* forward call failed.
C1_Witness ==
    /\ ForwardFailed(1)
    /\ Succeeded(1)
    /\ req[1].response.body.data = [processed |-> 3, stored |-> 2, skipped |-> 1]

\* C2: a metric stored by an earlier, finished request and submitted again
\* while that row is inside the window (createdAt >= now - window) is answered
\* {processed: 1, stored: 0, skipped: 1} and no row is inserted.
C2_Idempotence ==
    [][\A r \in Requests :
          LET q == req[r]
              m == Metrics(q)[1]
          IN  ( /\ q.pc = "lookup"
                /\ req'[r] # q
                /\ req'[r].response.status # 500
                /\ \E n \in 1..Len(db) :
                      /\ db[n].insertedBy \in q.after
                      /\ RowOf(db[n], m)
                      /\ db[n].createdAt >= now - dedupWindowHours )
              => /\ req'[r].pc = "done"
                 /\ req'[r].response =
                       [status |-> 200,
                        body |-> [success |-> TRUE,
                                  data |-> [processed |-> 1, stored |-> 0,
                                            skipped |-> 1]]]
                 /\ db' = db]_vars

\* The second request was skipped against a row aged exactly one window.
C2_Witness ==
    \E r \in Requests :
        /\ Succeeded(r)
        /\ req[r].response.body.data = [processed |-> 1, stored |-> 0, skipped |-> 1]
        /\ RowsInsertedBy(r) = {}
        /\ \E n \in 1..Len(db) :
              /\ db[n].insertedBy \in req[r].after
              /\ RowOf(db[n], Metrics(req[r])[1])
              /\ db[n].createdAt = now - dedupWindowHours

\* The rows the lookup of metric m can match, field by field.
RowsOf(m) == {n \in 1..Len(db) : RowOf(db[n], m)}

\* C3: a metric submitted again after the clock has passed the window since
\* the earlier row's createdAt is treated as new: the lookup misses, a second
\* row is inserted, and the answer is {processed: 1, stored: 1, skipped: 0}.
C3_WindowExpiry ==
    [][\A r \in Requests :
          LET q == req[r]
              m == Metrics(q)[1]
          IN  /\ ( /\ q.pc = "lookup"
                   /\ req'[r] # q
                   /\ req'[r].response.status # 500
                   /\ \E n \in RowsOf(m) : db[n].insertedBy \in q.after
                   /\ \A n \in RowsOf(m) : now - db[n].createdAt > dedupWindowHours )
                 => req'[r].pc = "insert"
              /\ ( /\ q.pc = "insert"
                   /\ req'[r] # q
                   /\ req'[r].response.status # 500 )
                 => /\ Len(db') = Len(db) + 1
                    /\ RowOf(db'[Len(db')], m)
                    /\ db'[Len(db')].createdAt = now
                    /\ req'[r].stored = 1 /\ req'[r].skipped = 0
              /\ ( /\ req'[r].pc = "done"
                   /\ req'[r].response.status = 200
                   /\ req'[r].verdicts = <<"Stored">> )
                 => req'[r].response.body.data =
                       [processed |-> 1, stored |-> 1, skipped |-> 0]]_vars

\* The same metric stored twice, the second time by a later request, more
\* than a window after the first.
C3_Witness ==
    \E r \in Requests :
        /\ Succeeded(r)
        /\ req[r].response.body.data = [processed |-> 1, stored |-> 1, skipped |-> 0]
        /\ \E n1, n2 \in 1..Len(db) :
              /\ db[n1].insertedBy \in req[r].after
              /\ db[n2].insertedBy = r
              /\ RowOf(db[n1], Metrics(req[r])[1])
              /\ RowOf(db[n2], Metrics(req[r])[1])
              /\ db[n2].createdAt - db[n1].createdAt > dedupWindowHours

\* C4: any two stored rows with the same fingerprint and identity tuple have
\* createdAt timestamps more than the window apart.
C4_RowsApart ==
    \A n1, n2 \in 1..Len(db) :
        ( /\ n1 < n2
          /\ db[n1].tagsHash = db[n2].tagsHash
          /\ db[n1].metricName = db[n2].metricName
          /\ db[n1].pagePath = db[n2].pagePath
          /\ db[n1].type = db[n2].type
          /\ db[n1].value = db[n2].value )
        => db[n2].createdAt - db[n1].createdAt > dedupWindowHours

\* C5: when the forward call fails, the request still answers success with
\* the counts of its classification, and every row it inserted is in the store.
C5_ForwardIsolation ==
    \A r \in Requests :
        ForwardFailed(r) =>
            /\ req[r].response =
                  [status |-> 200,
                   body |-> [success |-> TRUE,
                             data |-> [processed |-> Len(Metrics(req[r])),
                                       stored |-> CountOf(req[r].verdicts, "Stored"),
                                       skipped |-> CountOf(req[r].verdicts, "Skipped")]]]
            /\ Cardinality(RowsInsertedBy(r)) = CountOf(req[r].verdicts, "Stored")
            /\ \A k \in 1..Len(req[r].calls[1]) :
                  \E n \in RowsInsertedBy(r) :
                      /\ RowOf(db[n], req[r].calls[1][k])
                      /\ db[n].externalApiCalled = FALSE

\* A request that stored two metrics and whose forward call failed.
C5_Witness ==
    /\ ForwardFailed(1)
    /\ Cardinality(RowsInsertedBy(1)) = 2
    /\ req[1].response.body.success = TRUE

EmptyBody == [metrics |-> Arr(<<>>)]

\* C6: {metrics: []} is answered with the INVALID_PARAMETERS error and its
\* message, never with a success result.
C6_EmptyBatchRejected ==
    \A r \in Requests :
        (req[r].pc # "idle" /\ req[r].body = EmptyBody) =>
            /\ Done(r)
            /\ req[r].response =
                  [status |-> 400,
                   body |-> [success |-> FALSE,
                             error |-> [code |-> "INVALID_PARAMETERS",
                                        message |-> "Metrics array is required and cannot be empty"]]]

C6_Witness ==
    \E r \in Requests : Done(r) /\ req[r].body = EmptyBody

\* The body holds an array with an element that the schema does not accept.
ElementFailsSchema(body) ==
    /\ Kind(body.metrics) = "array"
    /\ \E k \in 1..Len(body.metrics[2]) :
          \E f \in {"metric_name", "page_path", "value", "tags", "type"} :
              ~FieldAccepts(f, body.metrics[2][k][f])

\* C7: when an element of the metrics array fails the schema, the response has
\* success = false, error.code = "INVALID_PARAMETERS" and the violations
\* under error.details.
C7_ValidationErrorShape ==
    \A r \in Requests :
        (Done(r) /\ ElementFailsSchema(req[r].body)) =>
            /\ "success" \in DOMAIN req[r].response.body
            /\ req[r].response.body.success = FALSE
            /\ req[r].response.body.error.code = "INVALID_PARAMETERS"
            /\ "details" \in DOMAIN req[r].response.body.error

\* The body is one the endpoint rejects: no array, an empty array, or an
\* element that fails the schema.
RejectedBody(body) ==
    \/ Kind(body.metrics) # "array"
    \/ body.metrics[2] = <<>>
    \/ ElementFailsSchema(body)

\* C8: a request rejected with a parameter or validation error looks nothing
\* up, inserts nothing, updates nothing and forwards nothing: it is answered
\* 400 at once, and the store stays as it was.
C8_RejectedNoSideEffects ==
    \A r \in Requests :
        (req[r].pc # "idle" /\ RejectedBody(req[r].body)) =>
            /\ Done(r)
            /\ req[r].response.status = 400
            /\ req[r].processed = 0 /\ req[r].stored = 0 /\ req[r].skipped = 0
            /\ req[r].verdicts = <<>>
            /\ req[r].metricsToSend = <<>>
            /\ req[r].calls = <<>>
            /\ RowsInsertedBy(r) = {}
            /\ db \in PriorStores

\* A rejected batch that also holds a valid metric, with a row in the store.
C8_Witness ==
    /\ Done(1)
    /\ req[1].response.status = 400
    /\ ElementFailsSchema(req[1].body)
    /\ \E k \in 1..Len(req[1].body.metrics[2]) : req[1].body.metrics[2][k] = M1
    /\ db # <<>>

TagSet(m) == {m.tags[2][n] : n \in 1..Len(m.tags[2])}

\* Identical name, pagePath, type, value and the same set of tag pairs.
SameLogicalMetric(m1, m2) ==
    /\ m1.metric_name = m2.metric_name
    /\ m1.page_path = m2.page_path
    /\ m1.type = m2.type
    /\ m1.value = m2.value
    /\ TagSet(m1) = TagSet(m2)

Hashed(r) == req[r].pc # "idle"

\* C9: two metrics with identical name, pagePath, type, value and the same
\* set of tag pairs get the same fingerprint whatever the order of their tag
\* keys, so the second submission of such a pair is Skipped.
C9_Determinism ==
    \A r1, r2 \in Requests :
        ( /\ Hashed(r1) /\ Hashed(r2)
          /\ SameLogicalMetric(Metrics(req[r1])[1], Metrics(req[r2])[1]) )
        => /\ req[r1].tagsHash = req[r2].tagsHash
           /\ ( /\ Done(r2) /\ r1 \in req[r2].after
                /\ req[r1].verdicts = <<"Stored">> )
              => req[r2].verdicts = <<"Skipped">>

\* The same metric with its tag keys in the other order, skipped.
C9_Witness ==
    \E r1, r2 \in Requests :
        /\ Done(r2) /\ r1 \in req[r2].after
        /\ SameLogicalMetric(Metrics(req[r1])[1], Metrics(req[r2])[1])
        /\ Metrics(req[r1])[1].tags # Metrics(req[r2])[1].tags
        /\ req[r1].verdicts = <<"Stored">>
        /\ req[r2].verdicts = <<"Skipped">>

\* pagePath as the data model reads it: missing is null.
PagePathOf(m) == IF Kind(m.page_path) = "undefined" THEN Null ELSE m.page_path

\* The fields in which two metrics differ.
FieldsDiffering(m1, m2) ==
    {f \in {"metric_name", "type", "value"} : m1[f] # m2[f]}
    \cup (IF PagePathOf(m1) # PagePathOf(m2) THEN {"page_path"} ELSE {})
    \cup (IF TagSet(m1) # TagSet(m2) THEN {"tags"} ELSE {})

\* C10: two metrics that differ in exactly one of name, pagePath, type, value
\* or a tag key or value never share a fingerprint.
C10_Sensitivity ==
    \A r1, r2 \in Requests :
        ( /\ Hashed(r1) /\ Hashed(r2)
          /\ Cardinality(FieldsDiffering(Metrics(req[r1])[1], Metrics(req[r2])[1])) = 1 )
        => req[r1].tagsHash # req[r2].tagsHash

\* The identity of a metric: name, pagePath, type, value and tag pairs.
SameIdentity(m1, m2) ==
    /\ m1.metric_name = m2.metric_name
    /\ PagePathOf(m1) = PagePathOf(m2)
    /\ m1.type = m2.type
    /\ m1.value = m2.value
    /\ TagSet(m1) = TagSet(m2)

\* The request was accepted and runs (or ran) processMetrics on its batch.
Accepted(r) == req[r].pc # "idle" /\ ~RejectedBody(req[r].body)

\* The store held no row of a metric of the batch when the request came in.
NoPriorDuplicate(r) ==
    \A n \in 1..Len(db), k \in 1..Len(Metrics(req[r])) :
        db[n].insertedBy # r => ~RowOf(db[n], Metrics(req[r])[k])

\* Every row the request has written is still inside the window.
OwnRowsInWindow(r) ==
    \A n \in RowsInsertedBy(r) : db[n].createdAt >= now - dedupWindowHours

\* The verdict of position k when the batch is classified left to right.
LeftToRightVerdict(batch, k) ==
    IF \E j \in 1..(k - 1) : SameIdentity(batch[j], batch[k])
    THEN "Skipped" ELSE "Stored"

ClassifiedLeftToRight(r) ==
    LET q == req[r]
        batch == Metrics(q)
    IN  /\ \A k \in 1..Len(q.verdicts) :
              q.verdicts[k] = LeftToRightVerdict(batch, k)
        /\ Succeeded(r) =>
              q.response.body.data =
                  [processed |-> Len(batch),
                   stored |-> Cardinality({k \in 1..Len(batch) :
                                 LeftToRightVerdict(batch, k) = "Stored"}),
                   skipped |-> Cardinality({k \in 1..Len(batch) :
                                 LeftToRightVerdict(batch, k) = "Skipped"})]

RECURSIVE StoredUpTo(_, _, _)
StoredUpTo(batch, verdicts, k) ==
    IF k = 0 THEN <<>>
    ELSE IF verdicts[k] = "Stored"
    THEN Append(StoredUpTo(batch, verdicts, k - 1), batch[k])
    ELSE StoredUpTo(batch, verdicts, k - 1)

StoredBy(r) == StoredUpTo(Metrics(req[r]), req[r].verdicts, Len(req[r].verdicts))

\* The request has a verdict for every metric of its batch.
Classified(r) ==
    Accepted(r) /\ Len(req[r].verdicts) = Len(Metrics(req[r]))

\* The payload is the Stored metrics of this request, each with its own row.
PayloadIsStored(r, payload) ==
    /\ payload = StoredBy(r)
    /\ Len(payload) = Cardinality(RowsInsertedBy(r))
    /\ \A k \in 1..Len(payload) :
          \E n \in RowsInsertedBy(r) : RowOf(db[n], payload[k])

\* C12 as stated: with forwarding enabled, every request that has finished
\* classification has made exactly one outbound call, whose payload is the
\* sequence of the metrics it stored.
C12_ForwardedExactlyOnce ==
    \A r \in Requests :
        (Classified(r) /\ externalApiEnabled) =>
            /\ Len(req[r].calls) = 1
            /\ PayloadIsStored(r, req[r].calls[1])

\* C12, amended: a request makes no outbound call before it has finished
\* classification; after it, it has made exactly one call when forwarding is
\* enabled and it stored at least one metric, and none otherwise. The payload
\* is the sequence of the metrics stored by this request, in input order.
C12_ForwardedOnceIfStored ==
    \A r \in Requests :
        /\ Len(req[r].calls) <= 1
        /\ ~Classified(r) => req[r].calls = <<>>
        /\ Classified(r) =>
              /\ Len(req[r].calls) =
                    (IF externalApiEnabled /\ StoredBy(r) # <<>> THEN 1 ELSE 0)
              /\ req[r].calls # <<>> => PayloadIsStored(r, req[r].calls[1])

\* A batch with a Skipped metric whose two Stored metrics were forwarded.
C12_Witness ==
    /\ Succeeded(1)
    /\ \E k \in 1..Len(req[1].verdicts) : req[1].verdicts[k] = "Skipped"
    /\ Len(req[1].calls) = 1
    /\ Len(req[1].calls[1]) = 2
    /\ req[1].calls[1] = StoredBy(1)

\* C13: an update made after a successful forward changes only rows that the
\* forwarding request inserted; every row written by another (earlier)
\* request, forwarded or not, is left as it was.
C13_OnlyOwnRowsUpdated ==
    [][\A r \in Requests :
          (req[r].pc = "update" /\ req'[r] # req[r]) =>
              \A n \in 1..Len(db) :
                  db[n].insertedBy # r => db'[n] = db[n]]_vars

\* The store rejected a lookup or an insert of the request: it is done
\* without a verdict for every metric of its batch.
StoreFailed(r) == Done(r) /\ Accepted(r) /\ ~Classified(r)

\* C14: at every point the stored counter of a request equals the number of
\* rows it has inserted; a success result reports that number, and a request
\* whose insert or lookup failed returns no result with counts.
C14_StoredMeansInserted ==
    \A r \in Requests :
        /\ req[r].stored = Cardinality(RowsInsertedBy(r))
        /\ req[r].stored = CountOf(req[r].verdicts, "Stored")
        /\ Succeeded(r) =>
              req[r].response.body.data.stored = Cardinality(RowsInsertedBy(r))
        /\ StoreFailed(r) => "data" \notin DOMAIN req[r].response.body

\* The second insert of a batch failed after the first had succeeded.
C14_Witness ==
    /\ StoreFailed(1)
    /\ req[1].response.body.error.message = "create failed"
    /\ req[1].i = 2 /\ req[1].skipped = 0
    /\ req[1].stored = 1
    /\ Cardinality(RowsInsertedBy(1)) = 1

\* Two metrics equal in every field but page_path, which is null in one and
\* absent in the other.
NullAndAbsent(m1, m2) ==
    /\ {m1.page_path, m2.page_path} = {Null, Undefined}
    /\ [m1 EXCEPT !.page_path = Null] = [m2 EXCEPT !.page_path = Null]

\* C15: a metric with page_path null and the same metric with page_path
\* absent have the same fingerprint and are stored with the same pagePath;
\* submitted one after the other, the second is Skipped.
C15_NullIsAbsent ==
    \A r1, r2 \in Requests :
        ( /\ Hashed(r1) /\ Hashed(r2)
          /\ NullAndAbsent(Metrics(req[r1])[1], Metrics(req[r2])[1]) )
        => /\ req[r1].tagsHash = req[r2].tagsHash
           /\ \A n \in RowsInsertedBy(r1) \cup RowsInsertedBy(r2) :
                 db[n].pagePath = Null
           /\ ( /\ Done(r2) /\ r1 \in req[r2].after
                /\ req[r1].verdicts = <<"Stored">> )
              => /\ req[r2].verdicts = <<"Skipped">>
                 /\ RowsInsertedBy(r2) = {}

\* page_path null was stored, page_path absent was then skipped.
C15_Witness ==
    \E r1, r2 \in Requests :
        /\ Done(r2) /\ r1 \in req[r2].after
        /\ Metrics(req[r1])[1].page_path = Null
        /\ Metrics(req[r2])[1].page_path = Undefined
        /\ NullAndAbsent(Metrics(req[r1])[1], Metrics(req[r2])[1])
        /\ req[r1].verdicts = <<"Stored">>
        /\ req[r2].verdicts = <<"Skipped">>

\* C16: with forwarding disabled no request makes an outbound call and no
\* row is updated (every row keeps externalApiCalled = false and no
\* response); with forwarding disabled or enabled, the counts returned are
\* those of the classification alone.
C16_DisabledForwarding ==
    /\ ~externalApiEnabled =>
          /\ \A r \in Requests : req[r].calls = <<>> /\ req[r].j = 0
          /\ \A n \in 1..Len(db) :
                /\ db[n].externalApiCalled = FALSE
                /\ db[n].externalApiResponse = Null
    /\ \A r \in Requests :
          Succeeded(r) =>
              req[r].response.body.data =
                  [processed |-> Len(Metrics(req[r])),
                   stored |-> CountOf(req[r].verdicts, "Stored"),
                   skipped |-> CountOf(req[r].verdicts, "Skipped")]

\* Two metrics stored and answered with forwarding disabled.
C16_Witness ==
    /\ ~externalApiEnabled
    /\ Succeeded(1)
    /\ req[1].response.body.data.stored = 2
    /\ Cardinality(RowsInsertedBy(1)) = 2
    /\ req[1].calls = <<>>

\* C17: a request whose lookup or insert was rejected by the store is
\* answered 500 with {success: false, error: {code: "INTERNAL_ERROR",
\* message}} and nothing else: no data field with partial counts.
C17_StoreFailureResponse ==
    \A r \in Requests :
        StoreFailed(r) =>
            /\ req[r].response.status = 500
            /\ DOMAIN req[r].response.body = {"success", "error"}
            /\ req[r].response.body.success = FALSE
            /\ DOMAIN req[r].response.body.error = {"code", "message"}
            /\ req[r].response.body.error.code = "INTERNAL_ERROR"
            /\ req[r].response.body.error.message # ""

\* The store failed on the second metric after the first had been stored.
C17_Witness ==
    /\ StoreFailed(1)
    /\ req[1].response.status = 500
    /\ req[1].processed = 2 /\ req[1].stored = 1
    /\ RowsInsertedBy(1) # {}

\* C18: when the insert of a request is rejected while the store holds an
\* in-window row of the same metric written by another request, the request
\* counts the metric as Skipped and is not answered with an error.
C18_RejectedInsertIsDuplicate ==
    [][\A r \in Requests :
          LET q == req[r]
          IN  ( /\ q.pc = "insert"
                /\ req'[r] # q
                /\ db' = db
                /\ \E n \in 1..Len(db) :
                      /\ db[n].insertedBy # r
                      /\ RowOf(db[n], Metrics(q)[q.i])
                      /\ db[n].createdAt >= now - dedupWindowHours )
              => /\ req'[r].verdicts = Append(q.verdicts, "Skipped")
                 /\ req'[r].skipped = q.skipped + 1
                 /\ req'[r].response.status # 500]_vars

\* C19: a store failure at one position of a batch does not keep the later
\* positions from being processed: every accepted request that is done has
\* entered the loop for every metric of its batch.
C19_RestOfBatchAttempted ==
    \A r \in Requests :
        (Done(r) /\ Accepted(r)) =>
            req[r].processed = Len(Metrics(req[r]))

\* C20: while the subscription is CANCELLED no payment operation executes or
\* records a payment for it: no step makes a token transfer, changes
\* paidCount or nextPaymentTime, or adds a payment record.
C20_NoPaymentAfterCancel ==
    [][subscription.status = "CANCELLED" =>
          /\ \A r \in Requests : subReq'[r].transferred = subReq[r].transferred
          /\ subscription'.paidCount = subscription.paidCount
          /\ subscription'.nextPaymentTime = subscription.nextPaymentTime
          /\ subscriptionPayment' = subscriptionPayment]_vars

\* C21: a subscription limited to N > 0 payments never has paidCount above
\* N, and once paidCount = N no step makes a token transfer, changes
\* paidCount or adds a payment record.
C21_LimitedStops ==
    /\ [](subscription.totalPayments > 0 =>
             subscription.paidCount <= subscription.totalPayments)
    /\ [][(subscription.totalPayments > 0
            /\ subscription.paidCount = subscription.totalPayments) =>
              /\ \A r \in Requests : subReq'[r].transferred = subReq[r].transferred
              /\ subscription'.paidCount = subscription.paidCount
              /\ subscriptionPayment' = subscriptionPayment]_vars

\* The store holds a row whose name, pagePath, fingerprint, type and value
\* equal the metric's and whose createdAt is inside the window, boundary
\* included.
GateHit(m) ==
    \E n \in 1..Len(db) :
        /\ db[n].metricName = m.metric_name
        /\ db[n].pagePath = PagePathOf(m)
        /\ db[n].tagsHash = generateMetricHash(m)
        /\ db[n].type = m.type
        /\ db[n].value = NumberToString(m.value[2])
        /\ db[n].createdAt >= now - dedupWindowHours

CallSucceeded(r) ==
    req[r].calls # <<>> /\ req[r].externalResponse # Undefined

FixedFields(row) ==
    <<row.metricName, row.pagePath, row.value, row.tags, row.type,
      row.tagsHash, row.createdAt>>

\* C24: no step deletes a row or changes a row's name, pagePath, value,
\* tags, type, fingerprint or createdAt; a row changes only from
\* externalApiCalled = false to true with a response attached, so a forwarded
\* row is never updated again and never returns to false.
C24_RowsImmutable ==
    [][/\ Len(db') >= Len(db)
       /\ \A n \in 1..Len(db) :
             /\ FixedFields(db'[n]) = FixedFields(db[n])
             /\ db'[n] # db[n] =>
                   /\ db[n].externalApiCalled = FALSE
                   /\ db[n].externalApiResponse = Null
                   /\ db'[n].externalApiCalled = TRUE
                   /\ db'[n].externalApiResponse # Null]_vars

\* Two requests stored the same metric, both forwards succeeded with
\* different answers, and both rows carry the answer of one call.
C24_Witness ==
    \E r1, r2 \in Requests :
        /\ r1 # r2
        /\ Done(r1) /\ Done(r2)
        /\ CallSucceeded(r1) /\ CallSucceeded(r2)
        /\ req[r1].externalResponse # req[r2].externalResponse
        /\ req[r1].calls = req[r2].calls
        /\ \A n \in RowsInsertedBy(r1) \cup RowsInsertedBy(r2) :
              /\ db[n].externalApiCalled
              /\ db[n].externalApiResponse =
                    OrElse(req[r1].externalResponse, Obj(<<>>))

\* C25: a request issues its forward call only when every metric of its
\* batch has a verdict and every Stored metric has its row; once the call is
\* issued the request makes no lookup and no insert.
C25_ForwardAfterClassification ==
    /\ [](\A r \in Requests :
             req[r].calls # <<>> =>
                 /\ Classified(r)
                 /\ Cardinality(RowsInsertedBy(r)) = CountOf(req[r].verdicts, "Stored")
                 /\ req[r].pc \notin {"lookup", "insert"})
    /\ [][\A r \in Requests :
             req[r].calls # <<>> =>
                 /\ req'[r].verdicts = req[r].verdicts
                 /\ req'[r].pc \notin {"lookup", "insert"}
                 /\ {n \in 1..Len(db') : db'[n].insertedBy = r} = RowsInsertedBy(r)]_vars

\* The forward call of a batch of three is in flight: three verdicts, two
\* rows, nothing updated yet.
C25_Witness ==
    /\ req[1].pc = "forward"
    /\ Len(req[1].verdicts) = 3
    /\ Cardinality(RowsInsertedBy(1)) = 2
    /\ Len(req[1].calls[1]) = 2
    /\ \A n \in RowsInsertedBy(1) : ~db[n].externalApiCalled

\* C26: when a store failure has ended a request, every metric it had
\* classified as Stored before the failure still has its row, with
\* externalApiCalled = false and no response, and the request has made no
\* outbound call.
C26_NoRollbackNoForward ==
    \A r \in Requests :
        StoreFailed(r) =>
            /\ req[r].calls = <<>>
            /\ Cardinality(RowsInsertedBy(r)) = CountOf(req[r].verdicts, "Stored")
            /\ \A k \in 1..Len(req[r].verdicts) :
                  req[r].verdicts[k] = "Stored" =>
                      \E n \in RowsInsertedBy(r) :
                          /\ RowOf(db[n], Metrics(req[r])[k])
                          /\ db[n].externalApiCalled = FALSE
                          /\ db[n].externalApiResponse = Null

\* The store failed at the third metric with forwarding enabled; the rows of
\* the first two are in the store.
C26_Witness ==
    /\ externalApiEnabled
    /\ StoreFailed(1)
    /\ req[1].i = 3
    /\ req[1].verdicts = <<"Stored", "Stored">>
    /\ Cardinality(RowsInsertedBy(1)) = 2
    /\ req[1].calls = <<>>

\* A request that finished before r was submitted stored metric m, its
\* forward call failed, and its row is inside the window.
FailedForwardInWindow(r, m) ==
    \E p \in req[r].after :
        /\ ForwardFailed(p)
        /\ \E n \in RowsInsertedBy(p) :
              /\ RowOf(db[n], m)
              /\ db[n].createdAt >= now - dedupWindowHours

\* C27: a later request that submits a metric whose row is inside the window
\* and whose forward had failed gets Skipped from its lookup, ends without an
\* outbound call and without an update, and leaves the store as it was.
C27_NoRetryInsideWindow ==
    [][\A r \in Requests :
          LET q == req[r]
              m == Metrics(q)[1]
          IN  ( /\ q.pc = "lookup"
                /\ req'[r] # q
                /\ req'[r].response.status # 500
                /\ FailedForwardInWindow(r, m) )
              => /\ req'[r].verdicts = <<"Skipped">>
                 /\ req'[r].pc = "done"
                 /\ req'[r].calls = <<>>
                 /\ req'[r].j = 0
                 /\ db' = db]_vars

\* With forwarding enabled, the resubmission was skipped and the row of the
\* failed forward is still unforwarded.
C27_Witness ==
    \E r \in Requests :
        /\ externalApiEnabled
        /\ Succeeded(r)
        /\ req[r].verdicts = <<"Skipped">>
        /\ req[r].calls = <<>>
        /\ FailedForwardInWindow(r, Metrics(req[r])[1])
        /\ \A n \in 1..Len(db) : ~db[n].externalApiCalled

\* The requests whose handler has called ContractService.executeAirdrop.
AirdropCalls == {r \in Requests : linkReq[r].called}

\* C28: a signed link is executed at most once: over any interleaving of
\* execute requests for the link executeAirdrop is called at most once, and
\* a request that begins once executed is true is rejected with "Link has
\* already been executed" without calling the contract.
C28_ExecutedAtMostOnce ==
    /\ [](Cardinality(AirdropCalls) <= 1)
    /\ [][\A r \in Requests :
            (signedLink.executed /\ linkReq[r].pc = "idle"
                                 /\ linkReq'[r].pc # "idle") =>
                /\ linkReq'[r].result =
                     [status |-> 400, message |-> "Link has already been executed"]
                /\ ~linkReq'[r].called]_vars

\* The token transfers made by calls of processPayment.
PaymentTransfers ==
    {r \in Requests : subReq[r].kind = "processPayment" /\ subReq[r].transferred}

\* The billing periods due so far: the first at nextPaymentTime 1, one more
\* with every interval of 1.
PeriodsDue == 1..now

\* C29: processPayment charges each billing period at most once: its token
\* transfers never outnumber the periods due; the update after a confirmed
\* payment raises paidCount by exactly 1 and nextPaymentTime by exactly one
\* interval; a call on a subscription that is not ACTIVE or not yet due
\* makes no transfer and changes nothing. (Only calls of processPayment
\* are counted: states with a request of the payments route are left out.)
C29_OncePerPeriod ==
    /\ []((\A r \in Requests : subReq[r].kind # "recordPayment") =>
             Cardinality(PaymentTransfers) <= Cardinality(PeriodsDue))
    /\ [][\A r \in Requests :
            /\ (subReq[r].pc = "updateSubscription"
                  /\ subReq'[r].pc = "createTransaction") =>
                  /\ subscription'.paidCount = subscription.paidCount + 1
                  /\ subscription'.nextPaymentTime =
                       subscription.nextPaymentTime + subscription.interval
            /\ (subReq[r].pc = "idle" /\ subReq'[r].kind = "processPayment"
                  /\ (subscription.status # "ACTIVE"
                        \/ subscription.nextPaymentTime > now)) =>
                  /\ ~subReq'[r].transferred
                  /\ subReq'[r].pc = "done"
                  /\ subscription' = subscription
                  /\ subscriptionPayment' = subscriptionPayment
                  /\ transaction' = transaction]_vars

\* C30: SYNCED is terminal: once a run of syncPendingTransactions has set a
\* transaction's syncStatus to SYNCED, no step of any run, overlapping runs
\* included, sets it to PENDING or SYNCING.
C30_SyncedIsTerminal ==
    [][\A id \in 1..Len(transaction) :
          transaction[id].syncStatus = "SYNCED" =>
              transaction'[id].syncStatus = "SYNCED"]_vars

====
